---------------------------- MODULE Spec2Model ----------------------------
(***************************************************************************)
(* Model of semaphore/broadcast/markdown.py: the duration parser           *)
(* (timespan_pattern, parse_timedelta), the coercions convert_to_tzinfo,   *)
(* convert_to_arrow and convert_to_timedelta, the pydantic model           *)
(* BroadcastMarkdownFrontMatter with its field validators and its root     *)
(* validator, and BroadcastMarkdown._make_scheduler / to_broadcast.        *)
(*                                                                         *)
(* Texts are sequences of one-character strings.  Every Python value is a  *)
(* record with a "kind" field naming its type.  Times are in seconds.      *)
(***************************************************************************)
EXTENDS Integers, Sequences, FiniteSets, TLC

VARIABLES
    text,       \* parse_timedelta: the argument
    fmt,        \* the numbers <<w, d, h, mi, s>> the text was formatted from, or <<>>
    td,         \* parse_timedelta: the outcome (NotCalled before the call)
    raw,        \* parse_obj: the raw front matter (yaml_data)
    pc,         \* parse_obj: the field validated next, then the later stages
    values,     \* pydantic's `values`: the fields coerced so far
    errors,     \* pydantic's error list, as a set of [loc, err]
    broadcast   \* the BroadcastMessage to_broadcast built (NoneV before)

vars == <<text, fmt, td, raw, pc, values, errors, broadcast>>

(***************************************************************************)
(* Bounds.                                                                 *)
(***************************************************************************)
MaxNum == 1
MaxDay == 1

NoneV == [kind |-> "None"]
NotCalled == [kind |-> "NotCalled"]

SecondsPerHour == 60 * 60
SecondsPerDay == 24 * SecondsPerHour
SecondsPerWeek == 7 * SecondsPerDay

(***************************************************************************)
(* Characters and str methods.                                             *)
(***************************************************************************)
Digits == <<"0", "1", "2", "3", "4", "5", "6", "7", "8", "9">>

IsDigit(c) == \E i \in 1..Len(Digits) : Digits[i] = c

DigitVal(c) == (CHOOSE i \in 1..Len(Digits) : Digits[i] = c) - 1

IsSpace(c) == c \in {" ", "\t", "\n"}

Lower == <<"a", "b", "c", "d", "e", "f", "g", "h", "i", "j", "k", "l", "m",
           "n", "o", "p", "q", "r", "s", "t", "u", "v", "w", "x", "y", "z">>
Upper == <<"A", "B", "C", "D", "E", "F", "G", "H", "I", "J", "K", "L", "M",
           "N", "O", "P", "Q", "R", "S", "T", "U", "V", "W", "X", "Y", "Z">>

IsUpper(c) == \E i \in 1..Len(Upper) : Upper[i] = c
IsLower(c) == \E i \in 1..Len(Lower) : Lower[i] = c

ToLowerChar(c) ==
    IF IsUpper(c) THEN Lower[CHOOSE i \in 1..Len(Upper) : Upper[i] = c] ELSE c
ToUpperChar(c) ==
    IF IsLower(c) THEN Upper[CHOOSE i \in 1..Len(Lower) : Lower[i] = c] ELSE c

\* str.lower()
StrLower(t) == [i \in 1..Len(t) |-> ToLowerChar(t[i])]

RECURSIVE LStrip(_)
LStrip(t) == IF t # <<>> /\ IsSpace(Head(t)) THEN LStrip(Tail(t)) ELSE t

RECURSIVE RStrip(_)
RStrip(t) ==
    IF t # <<>> /\ IsSpace(t[Len(t)]) THEN RStrip(SubSeq(t, 1, Len(t) - 1)) ELSE t

\* str.strip()
Strip(t) == RStrip(LStrip(t))

RECURSIVE Flatten(_)
Flatten(ss) == IF ss = <<>> THEN <<>> ELSE Head(ss) \o Flatten(Tail(ss))

\* int(v) of a digit string
RECURSIVE PyInt(_)
PyInt(ds) ==
    IF ds = <<>> THEN 0
    ELSE 10 * PyInt(SubSeq(ds, 1, Len(ds) - 1)) + DigitVal(ds[Len(ds)])

\* str(n) of a natural number, as an f-string renders it
RECURSIVE PyStr(_)
PyStr(n) == IF n < 10 THEN <<Digits[n + 1]>> ELSE PyStr(n \div 10) \o <<Digits[(n % 10) + 1]>>

(***************************************************************************)
(* timespan_pattern, matched as Python's backtracking matcher does: the    *)
(* outcome is the first success in the order the matcher tries.            *)
(***************************************************************************)
GroupNames == <<"weeks", "days", "hours", "minutes", "seconds">>

\* the alternation that follows each named group, in the pattern's order
UnitAlternatives ==
    << << <<"w","e","e","k","s">>, <<"w","e","e","k">>, <<"w">> >>,
       << <<"d","a","y","s">>, <<"d","a","y">>, <<"d">> >>,
       << <<"h","o","u","r","s">>, <<"h","o","u","r">>, <<"h","r">>, <<"h">> >>,
       << <<"m","i","n","u","t","e","s">>, <<"m","i","n","u","t","e">>,
          <<"m","i","n","s">>, <<"m","i","n">>, <<"m">> >>,
       << <<"s","e","c","o","n","d","s">>, <<"s","e","c","o","n","d">>,
          <<"s","e","c","s">>, <<"s","e","c">>, <<"s">> >> >>

\* m.groupdict() of a match in which no group took part
EmptyGroupDict == [g \in 1..Len(GroupNames) |-> NoneV]

StartsWith(t, pos, u) ==
    /\ pos + Len(u) - 1 <= Len(t)
    /\ \A i \in 1..Len(u) : t[pos + i - 1] = u[i]

RECURSIVE DigitRun(_, _)
DigitRun(t, pos) ==
    IF pos <= Len(t) /\ IsDigit(t[pos]) THEN 1 + DigitRun(t, pos + 1) ELSE 0

RECURSIVE SpaceRun(_, _)
SpaceRun(t, pos) ==
    IF pos <= Len(t) /\ IsSpace(t[pos]) THEN 1 + SpaceRun(t, pos + 1) ELSE 0

\* \d in place of \d+? : a single digit
SingleDigitCount(avail) == IF avail >= 1 THEN <<1>> ELSE <<>>

\* \d+? : one digit first, then more (lazy); avail is the run of digits there
LazyDigitCounts(avail) == [i \in 1..avail |-> i]

\* \s* : the longest run first, then shorter (greedy)
GreedySpaceCounts(avail) == [i \in 1..(avail + 1) |-> avail + 1 - i]

\* $ : the end of the string, or just before a newline that ends it
AtEnd(t, pos) == pos = Len(t) + 1 \/ (pos = Len(t) /\ t[pos] = "\n")

\* every way groups g.. match t from pos, in the matcher's order
RECURSIVE MatchGroups(_, _, _)
MatchGroups(t, pos, g) ==
    IF g > Len(GroupNames) THEN
        IF AtEnd(t, pos) THEN <<EmptyGroupDict>> ELSE <<>>
    ELSE
        LET After(p) ==
                IF g < Len(GroupNames) THEN
                    LET ks == GreedySpaceCounts(SpaceRun(t, p))
                    IN  Flatten([j \in 1..Len(ks) |-> MatchGroups(t, p + ks[j], g + 1)])
                ELSE MatchGroups(t, p, g + 1)
            alts == UnitAlternatives[g]
            Unit(p, nd) ==
                Flatten([a \in 1..Len(alts) |->
                    IF StartsWith(t, p, alts[a]) THEN
                        LET rest == After(p + Len(alts[a]))
                        IN  [r \in 1..Len(rest) |->
                                [rest[r] EXCEPT ![g] =
                                    [kind |-> "str", s |-> SubSeq(t, pos, pos + nd - 1)]]]
                    ELSE <<>>])
            Number(nd) ==
                LET ks == GreedySpaceCounts(SpaceRun(t, pos + nd))
                IN  Flatten([j \in 1..Len(ks) |-> Unit(pos + nd + ks[j], nd)])
            nds == LazyDigitCounts(DigitRun(t, pos))
            WithGroup == Flatten([n \in 1..Len(nds) |-> Number(nds[n])])
        IN  WithGroup \o After(pos)

\* the pattern compiled with re.IGNORECASE
timespan_match_ignorecase(t) ==
    LET ms == MatchGroups(StrLower(t), 1, 1)
    IN  IF ms = <<>> THEN NoneV ELSE [kind |-> "Match", groupdict |-> ms[1]]

\* timespan_pattern.match(t): the first match, or None.  The pattern is
\* compiled without flags, so a pattern letter matches that very character.
timespan_match(t) ==
    LET ms == MatchGroups(t, 1, 1)
    IN  IF ms = <<>> THEN NoneV ELSE [kind |-> "Match", groupdict |-> ms[1]]

\* datetime.timedelta(**td_args)
timedelta(td_args) ==
    LET Arg(g) == IF td_args[g].kind = "None" THEN 0 ELSE td_args[g].n
    IN  [kind |-> "timedelta",
         seconds |-> Arg(1) * SecondsPerWeek + Arg(2) * SecondsPerDay
                     + Arg(3) * SecondsPerHour + Arg(4) * 60 + Arg(5)]

ValueError(msg) == [kind |-> "ValueError", msg |-> msg]
TypeError(msg) == [kind |-> "TypeError", msg |-> msg]
IsError(v) == v.kind \in {"ValueError", "TypeError"}

parse_timedelta(t) ==
    LET m == timespan_match(Strip(t))
    IN  IF m.kind = "None" THEN ValueError("Could not parse a timespan")
        ELSE timedelta([g \in 1..Len(GroupNames) |->
                 IF m.groupdict[g].kind = "None" THEN NoneV
                 ELSE [kind |-> "int", n |-> PyInt(m.groupdict[g].s)]])

(***************************************************************************)
(* Time zones, datetimes and arrow.Arrow values.                           *)
(***************************************************************************)
\* dateutil.tz.UTC
UTC == [kind |-> "tzinfo", name |-> "UTC", utcoffset |-> 0]
\* a zone other than UTC (no daylight saving)
Karachi == [kind |-> "tzinfo", name |-> "Asia/Karachi", utcoffset |-> 5 * SecondsPerHour]

\* dateutil.tz.gettz(name): the zone of that name, or None
gettz(name) ==
    IF name = "UTC" THEN UTC
    ELSE IF name = "Asia/Karachi" THEN Karachi
    ELSE NoneV

\* isinstance(v, cls): datetime.datetime is a subclass of datetime.date
isinstance(v, cls) ==
    \/ v.kind = cls
    \/ (cls = "date" /\ v.kind = "datetime")

\* datetime.datetime.combine(v, datetime.time()): the date of v at midnight,
\* naive; the time and the tzinfo of a datetime v are ignored
combine_midnight(v) == [kind |-> "datetime", day |-> v.day, tod |-> 0, tzinfo |-> NoneV]

\* dateutil.parser.parse(v, fuzzy=True, yearfirst=True): the datetime the
\* text denotes, or ValueError
dateutil_parse(v) ==
    IF v.denotes.kind = "None" THEN ValueError("Could not parse date") ELSE v.denotes

\* arrow.get(dt) and arrow.get(dt, tz): dt's wall clock in dt's zone, or in tz
arrow_get(dt, tz) ==
    [kind |-> "Arrow", day |-> dt.day, tod |-> dt.tod, tzinfo |-> tz]

\* the absolute time of an Arrow (what <, == compare)
Instant(a) == a.day * SecondsPerDay + a.tod - a.tzinfo.utcoffset

\* Arrow + timedelta
ArrowPlus(a, d) ==
    LET wall == a.day * SecondsPerDay + a.tod + d.seconds
    IN  [kind |-> "Arrow", day |-> wall \div SecondsPerDay,
         tod |-> wall % SecondsPerDay, tzinfo |-> a.tzinfo]

(***************************************************************************)
(* The coercions.                                                          *)
(***************************************************************************)
convert_to_tzinfo(v) ==
    IF isinstance(v, "tzinfo") THEN v
    ELSE IF isinstance(v, "str") THEN
        LET tz == gettz(v.s)
        IN  IF ~isinstance(tz, "tzinfo") THEN ValueError("Could not parse timezone")
            ELSE tz
    ELSE TypeError("Incorrect type for timezone")

\* the isinstance branches of convert_to_arrow, in the order the code tests them
arrow_branch(v) ==
    IF isinstance(v, "date") THEN combine_midnight(v)
    ELSE IF isinstance(v, "datetime") THEN v
    ELSE IF isinstance(v, "str") THEN dateutil_parse(v)
    ELSE TypeError("Not a string")

convert_to_arrow(v, default_tz) ==
    IF v.kind = "None" THEN ValueError("Cannot determine date from None")
    ELSE LET dt == arrow_branch(v)
         IN  IF IsError(dt) THEN dt
             ELSE IF dt.tzinfo.kind # "None" THEN arrow_get(dt, dt.tzinfo)
             ELSE IF default_tz.kind # "None" THEN arrow_get(dt, default_tz)
             ELSE arrow_get(dt, UTC)

convert_to_timedelta(v) ==
    IF isinstance(v, "str") THEN parse_timedelta(v.s)
    ELSE IF isinstance(v, "timedelta") THEN v
    ELSE TypeError("Cannot parse timedelta")

(***************************************************************************)
(* BroadcastMarkdownFrontMatter: the fields, in declaration order, their   *)
(* defaults and their pre-validators.                                      *)
(***************************************************************************)
Fields == <<"summary", "env", "timezone", "defer", "expire", "ttl", "enabled">>
FieldSet == {Fields[i] : i \in 1..Len(Fields)}

Absent == [kind |-> "Absent"]     \* the key is not in the front matter
Unread == [kind |-> "Unread"]     \* the validation has not reached the key
Missing == [kind |-> "Missing"]   \* the key is not in pydantic's `values`

\* values.get(f) and values.get(f, default)
values_get(vals, f, default) == IF vals[f].kind = "Missing" THEN default ELSE vals[f]

RECURSIVE split_comma(_)
split_comma(t) ==
    IF \A i \in 1..Len(t) : t[i] # "," THEN <<t>>
    ELSE LET i == CHOOSE j \in 1..Len(t) :
                      t[j] = "," /\ \A k \in 1..(j - 1) : t[k] # ","
         IN  <<SubSeq(t, 1, i - 1)>> \o split_comma(SubSeq(t, i + 1, Len(t)))

preprocess_env(v) ==
    IF isinstance(v, "str") THEN
        LET parts == split_comma(v.s)
        IN  [kind |-> "list", items |-> [i \in 1..Len(parts) |-> Strip(parts[i])]]
    ELSE v

preprocess_timezone(v) == convert_to_tzinfo(v)

preprocess_arrow(v, vals) ==
    IF v.kind = "None" THEN NoneV
    ELSE convert_to_arrow(v, values_get(vals, "timezone", UTC))

preprocess_timedelta(v) ==
    IF v.kind = "None" THEN NoneV ELSE convert_to_timedelta(v)

ConflictingExpiry == ValueError("expire and ttl fields cannot be used together.")
ExpiryBeforeDefer == ValueError("expire cannot happen before defer")
Ok == [kind |-> "Ok"]

IsSet(v) == v.kind \notin {"None", "Missing", "Absent", "Unread"}

\* the root validator with the comparison as <=
check_schedule_combinations_le(vals) ==
    IF IsSet(values_get(vals, "expire", NoneV)) /\ IsSet(values_get(vals, "ttl", NoneV))
    THEN ConflictingExpiry
    ELSE IF /\ IsSet(values_get(vals, "defer", NoneV))
            /\ IsSet(values_get(vals, "expire", NoneV))
            /\ Instant(vals.expire) <= Instant(vals.defer)
    THEN ExpiryBeforeDefer
    ELSE Ok

\* the root validator without its first check
check_schedule_combinations_no_conflict(vals) ==
    IF /\ IsSet(values_get(vals, "defer", NoneV))
       /\ IsSet(values_get(vals, "expire", NoneV))
       /\ Instant(vals.expire) < Instant(vals.defer)
    THEN ExpiryBeforeDefer
    ELSE Ok

\* the ValueError it raises, or Ok when it returns the values
check_schedule_combinations(vals) ==
    IF IsSet(values_get(vals, "expire", NoneV)) /\ IsSet(values_get(vals, "ttl", NoneV))
    THEN ConflictingExpiry
    ELSE IF /\ IsSet(values_get(vals, "defer", NoneV))
            /\ IsSet(values_get(vals, "expire", NoneV))
            /\ Instant(vals.expire) < Instant(vals.defer)
    THEN ExpiryBeforeDefer
    ELSE Ok

\* @root_validator(skip_on_failure=True)
skip_on_failure_set == TRUE

\* @root_validator: skip_on_failure is left at its default
skip_on_failure == FALSE

(***************************************************************************)
(* The schedulers.                                                         *)
(***************************************************************************)
OneTimeScheduler(start, end) == [kind |-> "OneTimeScheduler", start |-> start, end |-> end]
OneTimeScheduler_from_ttl(start, ttl) == OneTimeScheduler(start, ArrowPlus(start, ttl))
OpenEndedScheduler(start) == [kind |-> "OpenEndedScheduler", start |-> start]
FixedExpirationScheduler(end) == [kind |-> "FixedExpirationScheduler", end |-> end]
PermaScheduler == [kind |-> "PermaScheduler"]

\* _make_scheduler testing expire before defer
make_scheduler_expire_first(metadata) ==
    IF metadata.expire.kind # "None" THEN FixedExpirationScheduler(metadata.expire)
    ELSE IF metadata.defer.kind # "None" THEN
        IF metadata.ttl.kind # "None" THEN
            OneTimeScheduler_from_ttl(metadata.defer, metadata.ttl)
        ELSE OpenEndedScheduler(metadata.defer)
    ELSE PermaScheduler

make_scheduler(metadata) ==
    IF metadata.defer.kind # "None" THEN
        IF metadata.expire.kind # "None" THEN
            OneTimeScheduler(metadata.defer, metadata.expire)
        ELSE IF metadata.ttl.kind # "None" THEN
            OneTimeScheduler_from_ttl(metadata.defer, metadata.ttl)
        ELSE OpenEndedScheduler(metadata.defer)
    ELSE IF metadata.expire.kind # "None" THEN
        FixedExpirationScheduler(metadata.expire)
    ELSE PermaScheduler

(***************************************************************************)
(* The texts parse_timedelta is called with.                               *)
(***************************************************************************)
Nums == (0..MaxNum) \cup {10 + MaxNum}

\* f"{w}w{d}d{h}h{mi}m{s}s"
Format(w, d, h, mi, s) ==
    PyStr(w) \o <<"w">> \o PyStr(d) \o <<"d">> \o PyStr(h) \o <<"h">>
        \o PyStr(mi) \o <<"m">> \o PyStr(s) \o <<"s">>

StrUpper(t) == [i \in 1..Len(t) |-> ToUpperChar(t[i])]

RECURSIVE CaseVariants(_)
CaseVariants(t) ==
    IF t = <<>> THEN {<<>>}
    ELSE {<<c>> \o r : c \in {Head(t), ToUpperChar(Head(t))}, r \in CaseVariants(Tail(t))}

EmptyText == <<>>
BlankText == <<" ", " ">>
AbcText == <<"a", "b", "c">>
FortnightsText == <<"5", " ", "f", "o", "r", "t", "n", "i", "g", "h", "t", "s">>

NoComponentTexts == {EmptyText, BlankText, AbcText, FortnightsText}

GrammarTexts ==
    { <<"1", "w", " ", "2", "d">>,
      <<"3", " ", "h", "o", "u", "r", "s">>,
      <<"5", "m", "i", "n">>,
      <<" ", "1", "d", " ">>,
      <<"9", "0", " ", "s", "e", "c", "s">>,
      <<"2", "h", "r", "4", "m", "i", "n", "s">> }

OtherTexts ==
    { <<"5", "m", "1", "w">>,              \* out of the fixed order
      <<"x", "1", "d">>,                   \* a duration only in a substring
      <<"1", "d", "x">>,
      <<"1", "d", "1", "d">>,              \* a unit twice
      <<"1">>,                             \* a number with no unit
      <<"d">> }                            \* a unit with no number

NoFmt == <<>>

DurationInputs ==
    {[text |-> Format(w, d, h, mi, s), fmt |-> <<w, d, h, mi, s>>] :
        w \in Nums, d \in Nums, h \in Nums, mi \in Nums, s \in Nums}
    \cup {[text |-> StrUpper(Format(w, d, h, mi, s)), fmt |-> NoFmt] :
        w \in Nums, d \in Nums, h \in Nums, mi \in Nums, s \in Nums}
    \cup {[text |-> t, fmt |-> NoFmt] :
        t \in NoComponentTexts \cup OtherTexts
                \cup UNION {CaseVariants(g) : g \in GrammarTexts}}

(***************************************************************************)
(* Specification of the duration parser: one call of parse_timedelta.      *)
(***************************************************************************)
Idle == [kind |-> "Idle"]

DurationInit ==
    /\ \E i \in DurationInputs : text = i.text /\ fmt = i.fmt
    /\ td = NotCalled
    /\ raw = Idle /\ pc = "idle" /\ values = Idle /\ errors = {} /\ broadcast = NoneV

ParseTimedelta ==
    /\ td = NotCalled
    /\ pc = "idle"
    /\ td' = parse_timedelta(text)
    /\ UNCHANGED <<text, fmt, raw, pc, values, errors, broadcast>>

DurationNext == ParseTimedelta

SpecDuration == DurationInit /\ [][DurationNext]_vars

(***************************************************************************)
(* The raw front matter parse_obj is called with.                          *)
(***************************************************************************)
Noon == 12 * SecondsPerHour

DateTimes ==
    {[kind |-> "datetime", day |-> d, tod |-> t, tzinfo |-> z] :
        d \in 0..MaxDay, t \in {0, Noon}, z \in {NoneV, UTC, Karachi}}

Dates == {[kind |-> "date", day |-> d] : d \in 0..MaxDay}

AnInt == [kind |-> "int", n |-> 5]

RawSummaries == {Absent, [kind |-> "str", s |-> <<"h", "i">>]}

RawEnvs == {Absent, [kind |-> "str", s |-> <<"p", ",", " ", "s">>]}

RawTimezones ==
    {Absent, Karachi, AnInt,
     [kind |-> "str", s |-> "Asia/Karachi"], [kind |-> "str", s |-> "Nowhere/Land"]}

\* a text stands for the datetime dateutil reads from it (None: unparsable)
RawTimestamps ==
    {Absent, NoneV, AnInt} \cup Dates \cup DateTimes
        \cup {[kind |-> "str", denotes |-> d] : d \in DateTimes \cup {NoneV}}

RawTtls ==
    {Absent, NoneV, AnInt, [kind |-> "timedelta", seconds |-> SecondsPerDay],
     [kind |-> "str", s |-> <<"1", "d">>], [kind |-> "str", s |-> EmptyText],
     [kind |-> "str", s |-> AbcText]}

RawEnableds == {Absent, [kind |-> "bool", b |-> FALSE]}

(***************************************************************************)
(* BroadcastMarkdownFrontMatter.parse_obj (pydantic's validate_model): the *)
(* fields one after the other in declaration order, each read against the  *)
(* values coerced before it, then the root validator, then the             *)
(* ValidationError when any error was collected.                           *)
(***************************************************************************)
MissingError == ValueError("field required")

Init ==
    /\ text = EmptyText /\ fmt = NoFmt /\ td = NotCalled
    /\ raw = [f \in FieldSet |-> Unread]
    /\ pc = "summary"
    /\ values = [f \in FieldSet |-> Missing]
    /\ errors = {}
    /\ broadcast = NoneV

\* one field: a coercion error is collected and the field stays out of `values`
Validate(f, v, coerced, next) ==
    /\ raw' = [raw EXCEPT ![f] = v]
    /\ IF IsError(coerced)
       THEN errors' = errors \cup {[loc |-> f, err |-> coerced]} /\ UNCHANGED values
       ELSE values' = [values EXCEPT ![f] = coerced] /\ UNCHANGED errors
    /\ pc' = next
    /\ UNCHANGED <<text, fmt, td, broadcast>>

ValidateSummary ==
    /\ pc = "summary"
    /\ \E v \in RawSummaries :
        Validate("summary", v, IF v.kind = "Absent" THEN MissingError ELSE v, "env")

ValidateEnv ==
    /\ pc = "env"
    /\ \E v \in RawEnvs :
        Validate("env", v, IF v.kind = "Absent" THEN NoneV ELSE preprocess_env(v),
                 "timezone")

ValidateTimezone ==
    /\ pc = "timezone"
    /\ \E v \in RawTimezones :
        Validate("timezone", v,
                 IF v.kind = "Absent" THEN UTC ELSE preprocess_timezone(v), "defer")

ValidateDefer ==
    /\ pc = "defer"
    /\ \E v \in RawTimestamps :
        Validate("defer", v,
                 IF v.kind = "Absent" THEN NoneV ELSE preprocess_arrow(v, values), "expire")

ValidateExpire ==
    /\ pc = "expire"
    /\ \E v \in RawTimestamps :
        Validate("expire", v,
                 IF v.kind = "Absent" THEN NoneV ELSE preprocess_arrow(v, values), "ttl")

ValidateTtl ==
    /\ pc = "ttl"
    /\ \E v \in RawTtls :
        Validate("ttl", v,
                 IF v.kind = "Absent" THEN NoneV ELSE preprocess_timedelta(v), "enabled")

ValidateEnabled ==
    /\ pc = "enabled"
    /\ \E v \in RawEnableds :
        Validate("enabled", v,
                 IF v.kind = "Absent" THEN [kind |-> "bool", b |-> TRUE] ELSE v, "root")

RootError(e) == [loc |-> "__root__", err |-> e]

RootValidate ==
    /\ pc = "root"
    /\ LET r == IF skip_on_failure /\ errors # {} THEN Ok
                ELSE check_schedule_combinations(values)
           errs == IF IsError(r) THEN errors \cup {RootError(r)} ELSE errors
       IN  /\ errors' = errs
           /\ pc' = IF errs = {} THEN "accepted" ELSE "rejected"
    /\ UNCHANGED <<text, fmt, td, raw, values, broadcast>>

\* BroadcastMarkdown.to_broadcast, on the metadata parse_obj returned
ToBroadcast ==
    /\ pc = "accepted"
    /\ broadcast' = [kind |-> "BroadcastMessage",
                     summary_md |-> values.summary,
                     scheduler |-> make_scheduler(values),
                     enabled |-> values.enabled]
    /\ pc' = "broadcast"
    /\ UNCHANGED <<text, fmt, td, raw, values, errors>>

Next ==
    \/ ValidateSummary
    \/ ValidateEnv
    \/ ValidateTimezone
    \/ ValidateDefer
    \/ ValidateExpire
    \/ ValidateTtl
    \/ ValidateEnabled
    \/ RootValidate
    \/ ToBroadcast

Spec == Init /\ [][Next]_vars

(***************************************************************************)
(* Properties.                                                             *)
(***************************************************************************)
Accepted == pc \in {"accepted", "broadcast"}
Rejected == pc = "rejected"
Done == Accepted \/ Rejected
HasError(f) == \E e \in errors : e.loc = f
Called == td.kind # "NotCalled"
HasUpper(t) == \E i \in 1..Len(t) : IsUpper(t[i])

Present(f) == IsSet(values_get(values, f, NoneV))

\* C1: a date-time input of defer/expire passes through convert_to_arrow
\* unchanged: the Arrow has the input's date and time of day, the input's
\* own zone when it has one, and the default zone otherwise.
C1_DateTimePassesThrough ==
    \A f \in {"defer", "expire"} :
        (raw[f].kind = "datetime" /\ values[f].kind = "Arrow") =>
            /\ values[f].day = raw[f].day
            /\ values[f].tod = raw[f].tod
            /\ values[f].tzinfo =
                    IF raw[f].tzinfo.kind # "None" THEN raw[f].tzinfo
                    ELSE values_get(values, "timezone", UTC)

\* C2: parse_timedelta rejects every text with no duration component (the
\* empty string, a blank string, "abc", "5 fortnights") with ValueError.
C2_NoComponentRejected ==
    (Called /\ text \in NoComponentTexts) => td.kind = "ValueError"

\* C3: every accepted record has a presence combination of (defer, expire,
\* ttl) that is a row of the scheduler table.
C3_TableExhaustive ==
    Accepted =>
        LET d == Present("defer")
            e == Present("expire")
            t == Present("ttl")
        IN  \/ d /\ e
            \/ d /\ ~e /\ t
            \/ d /\ ~e /\ ~t
            \/ ~d /\ e
            \/ ~d /\ ~e /\ ~t

\* C4: the scheduler of the broadcast is the table's variant for the
\* validated (defer, expire, ttl), whatever the other fields are.
C4_SchedulerIsTableVariant ==
    pc = "broadcast" =>
        LET d == Present("defer")
            e == Present("expire")
            t == Present("ttl")
            sch == broadcast.scheduler
        IN  /\ (d /\ e) =>
                /\ sch.kind = "OneTimeScheduler"
                /\ sch.start = values.defer
                /\ sch.end = values.expire
            /\ (d /\ ~e /\ t) =>
                /\ sch.kind = "OneTimeScheduler"
                /\ sch.start = values.defer
                /\ Instant(sch.end) = Instant(values.defer) + values.ttl.seconds
                /\ sch.end.tzinfo = values.defer.tzinfo
            /\ (d /\ ~e /\ ~t) =>
                /\ sch.kind = "OpenEndedScheduler"
                /\ sch.start = values.defer
            /\ (~d /\ e) =>
                /\ sch.kind = "FixedExpirationScheduler"
                /\ sch.end = values.expire
            /\ (~d /\ ~e /\ ~t) => sch.kind = "PermaScheduler"

\* a broadcast with defer and ttl, built from a disabled record with env and
\* a declared timezone
C4_Witness ==
    /\ pc = "broadcast"
    /\ Present("defer") /\ ~Present("expire") /\ Present("ttl")
    /\ broadcast.scheduler.kind = "OneTimeScheduler"
    /\ broadcast.scheduler.end.day = values.defer.day + 1
    /\ ~values.enabled.b
    /\ Present("env")
    /\ values.timezone = Karachi

\* C5 as stated: raw metadata with both expire and ttl set always fails with
\* ConflictingExpiry, whatever the raw shapes of expire and ttl.
C5_ConflictWhateverShapes ==
    (Done /\ IsSet(raw.expire) /\ IsSet(raw.ttl)) =>
        /\ Rejected
        /\ RootError(ConflictingExpiry) \in errors

\* C5 amended: raw metadata with both expire and ttl set always fails; it
\* fails with ConflictingExpiry whenever both coerce, whatever the other
\* fields; no accepted record has both expire and ttl.
C5_ConflictWhenBothCoerce ==
    Done =>
        /\ (IsSet(raw.expire) /\ IsSet(raw.ttl)) => Rejected
        /\ (IsSet(raw.expire) /\ IsSet(raw.ttl)
                /\ ~HasError("expire") /\ ~HasError("ttl")) =>
            RootError(ConflictingExpiry) \in errors
        /\ Accepted => ~(Present("expire") /\ Present("ttl"))

\* expire and ttl both coerce and ConflictingExpiry is reported, beside the
\* errors of a missing summary and an unknown timezone
C5_Witness ==
    /\ Rejected
    /\ raw.expire.kind = "str" /\ raw.ttl.kind = "str"
    /\ Present("expire") /\ Present("ttl")
    /\ HasError("summary") /\ HasError("timezone")
    /\ RootError(ConflictingExpiry) \in errors

\* C6 as stated: when a field coercion fails, the cross-field checks are not
\* evaluated and the failure holds no cross-field error.
C6_ShortCircuit ==
    (Done /\ \E e \in errors : e.loc # "__root__") =>
        ~HasError("__root__")

\* C6 amended: the cross-field checks run only after every field coercion
\* was attempted, and also when some failed: a failed field counts as
\* absent, and the failure holds the coercion errors together with the
\* cross-field error the coerced fields call for.
C6_RootAfterEveryField ==
    /\ ~Done => ~HasError("__root__")
    /\ Done =>
        /\ \A f \in FieldSet : raw[f].kind # "Unread"
        /\ \A f \in FieldSet : HasError(f) <=> values[f].kind = "Missing"
        /\ (Present("expire") /\ Present("ttl")) =>
                RootError(ConflictingExpiry) \in errors
        /\ (Present("defer") /\ Present("expire") /\ ~Present("ttl")
                /\ Instant(values.expire) < Instant(values.defer)) =>
                RootError(ExpiryBeforeDefer) \in errors

\* a timezone that failed to coerce, and ConflictingExpiry reported with it
C6_Witness ==
    /\ Rejected
    /\ HasError("timezone")
    /\ Present("expire") /\ Present("ttl")
    /\ RootError(ConflictingExpiry) \in errors

\* C7 as stated: with defer and expire present, normalization fails with
\* ExpiryBeforeDefer exactly when expire is strictly earlier than defer.
C7_ExpiryBeforeDeferExactly ==
    (Done /\ Present("defer") /\ Present("expire")) =>
        (RootError(ExpiryBeforeDefer) \in errors
            <=> Instant(values.expire) < Instant(values.defer))

\* C7 amended: with defer and expire present and no ttl, it fails with
\* ExpiryBeforeDefer exactly when expire is strictly earlier than defer (as
\* absolute times); with a ttl as well it fails with ConflictingExpiry only;
\* every accepted record with both has expire >= defer.
C7_ExpiryBeforeDeferUnlessTtl ==
    (Done /\ Present("defer") /\ Present("expire")) =>
        /\ ~Present("ttl") =>
            (RootError(ExpiryBeforeDefer) \in errors
                <=> Instant(values.expire) < Instant(values.defer))
        /\ Present("ttl") =>
            /\ RootError(ConflictingExpiry) \in errors
            /\ RootError(ExpiryBeforeDefer) \notin errors
        /\ Instant(values.expire) < Instant(values.defer) => Rejected
        /\ Accepted => Instant(values.expire) >= Instant(values.defer)

\* expire equal to defer is accepted
C7_Witness ==
    /\ Accepted
    /\ Present("defer") /\ Present("expire")
    /\ Instant(values.expire) = Instant(values.defer)

\* C8: in an accepted record a zone-less defer/expire carries the declared
\* timezone (UTC when none was declared) and an input with its own zone
\* keeps it.
C8_ZoneInherited ==
    Accepted =>
        \A f \in {"defer", "expire"} :
            raw[f].kind \in {"date", "datetime", "str"} =>
                LET own == IF raw[f].kind = "date" THEN NoneV
                           ELSE IF raw[f].kind = "datetime" THEN raw[f].tzinfo
                           ELSE raw[f].denotes.tzinfo
                    declared == IF raw.timezone.kind = "Absent" THEN UTC
                                ELSE values.timezone
                IN  values[f].tzinfo = IF own.kind = "None" THEN declared ELSE own

\* C9 as stated: an upper-case or mixed-case spelling of a grammar text is
\* accepted and yields the duration of the lower-case spelling.
C9_CaseInsensitive ==
    (Called /\ HasUpper(text) /\ parse_timedelta(StrLower(text)).kind = "timedelta") =>
        td = parse_timedelta(StrLower(text))

\* C9 amended: the grammar is matched case-sensitively: a text with an
\* upper-case letter is rejected with ValueError, and the lower-case
\* grammar texts are accepted.
C9_CaseSensitive ==
    Called =>
        /\ HasUpper(text) => td.kind = "ValueError"
        /\ text \in GrammarTexts => td.kind = "timedelta"

\* "5Min" is rejected
C9_Witness ==
    /\ Called
    /\ text = <<"5", "M", "i", "n">>
    /\ td.kind = "ValueError"

=============================================================================
